---- MODULE Spec2Model ----
(***************************************************************************)
(* A model of the finite state machine of finite_state_machine.h: the      *)
(* topology (state_t, transition_t), the machine (state_machine_t) and     *)
(* fsm_handle_event, one step per statement group of the function.         *)
(***************************************************************************)
EXTENDS Integers, Sequences, FiniteSets, TLC

VARIABLES states, fsm, stack, writes, trues, ncalls, topo

vars == <<states, fsm, stack, writes, trues, ncalls, topo>>

(* ------------------------------ bounds --------------------------------- *)

\* dispatch calls (nested ones included) made in one run
MaxDispatches == 3

\* event identifiers submitted are 0..MaxEventID
MaxEventID == 2

\* depth of nested fsm_handle_event calls on one machine
MaxDepth == 2

\* events fed to each of two machines driven with the same event sequence
MaxFeed == 2

(* -------------------- the example's enumerations ----------------------- *)

STATE_OPEN == 0

STATE_CLOSED == 1

EVENT_OPEN == 0

EVENT_CLOSE == 1

\* the lock's only event
EVENT_KEY == 1

(* ------------------------------ data ----------------------------------- *)

Machines == {"fsmA", "fsmB"}

NULL == "NULL"

\* transition_t* transition = NULL
NullTransition == [s |-> NULL, k |-> 0]

EventIDs == 0 .. MaxEventID

EventData == {7, 42}

\* event_t
Events == [ID : EventIDs, data : EventData]

\* transition_t
Transition(eventID, nextState, guard, action) ==
    [eventID |-> eventID, nextState |-> nextState, guard |-> guard, action |-> action]

\* struct state, as SM_STATE_ACTIONS and SM_TRANSITIONS fill it
State(data, entry, exit, transitions) ==
    [data |-> data, entryAction |-> entry, exitAction |-> exit,
     transitions |-> transitions, numTransitions |-> Len(transitions)]

\* the door of the header's example
DoorTopology ==
    [s \in {"doorOpenState", "doorClosedState"} |->
        IF s = "doorOpenState"
        THEN State(STATE_OPEN, NULL, NULL,
                   <<Transition(EVENT_CLOSE, "doorClosedState", NULL, "doorClosedAction")>>)
        ELSE State(STATE_CLOSED, NULL, NULL,
                   <<Transition(EVENT_OPEN, "doorOpenState", NULL, "doorOpenedAction")>>)]

\* a topology with a guarded transition, a duplicate event identifier, a
\* self-transition, absent callbacks, a state without transitions and a
\* state no transition leads to
GenericTopology ==
    [s \in {"S0", "S1", "S2", "S3", "S4"} |->
        CASE s = "S0" ->
               State(5, NULL, NULL, <<Transition(0, "S1", NULL, NULL)>>)
          [] s = "S1" ->
               State(10, "entry1", "exit1",
                     <<Transition(0, "S3", "guardIs42", "actionA"),
                       Transition(0, "S2", "guardTrue", "actionDup"),
                       Transition(1, "S1", NULL, "actionSelf")>>)
          [] s = "S2" ->
               State(20, NULL, "exit2",
                     <<Transition(1, "S3", "guardTrue", NULL),
                       Transition(0, "S1", NULL, NULL)>>)
          [] s = "S3" ->
               State(30, "entry3", NULL,
                     <<Transition(0, "S1", "guardFalse", "actionNever"),
                       Transition(1, "S4", NULL, "actionLast"),
                       Transition(2, "S2", NULL, NULL)>>)
          [] OTHER ->
               State(40, "entry4", "exit4", <<>>)]

\* a door whose Closed state has an exit callback, whose Open state has an
\* entry callback and whose OPEN transition has an action
DoorScenarioTopology ==
    [s \in {"Open", "Closed"} |->
        IF s = "Closed"
        THEN State(STATE_CLOSED, NULL, "closed-exit",
                   <<Transition(EVENT_OPEN, "Open", NULL, "opened")>>)
        ELSE State(STATE_OPEN, "open-entry", NULL,
                   <<Transition(EVENT_CLOSE, "Closed", NULL, NULL)>>)]

\* a lock whose KEY transition is guarded by "the event's data is 42"
LockTopology ==
    [s \in {"Locked", "Unlocked"} |->
        IF s = "Locked"
        THEN State(0, NULL, NULL,
                   <<Transition(EVENT_KEY, "Unlocked", "guardIs42", NULL)>>)
        ELSE State(1, NULL, NULL, <<>>)]

Topology(name) ==
    CASE name = "Door" -> DoorTopology
      [] name = "DoorScenario" -> DoorScenarioTopology
      [] name = "Lock" -> LockTopology
      [] OTHER -> GenericTopology

TopologyNames == {"Door", "DoorScenario", "Lock", "Generic"}

\* bool ( *guard )( data_t stateData, event_t* event ): the guards of the
\* topologies above, pure functions of their arguments
GuardEval(g, stateData, event) ==
    CASE g = "guardIs42" -> event.data = 42
      [] g = "guardTrue" -> TRUE
      [] g = "guardFalse" -> FALSE
      [] OTHER -> TRUE

(* --------------------------- fsm_handle_event -------------------------- *)

Depth(m) == Len(stack[m])

Top(m) == stack[m][Depth(m)]

Running(m) == Depth(m) > 0 /\ Top(m).pc # "done"

\* every machine reading the cursor of the first
CurShared(m) == fsm["fsmA"].currentState

\* fsm->currentState
Cur(m) == fsm[m].currentState

\* the transition pointer read one element too far when it can be
DerefOffByOne(p) ==
    states[p.s].transitions[IF p.k < Len(states[p.s].transitions) THEN p.k + 1 ELSE p.k]

\* *transition, for a transition pointer into a state's transitions array
Deref(p) == states[p.s].transitions[p.k]

\* an activation that returns false at once when a dispatch is in progress
NewFrameGuarded(event, m) ==
    [pc |-> IF Depth(m) > 0 /\ stack[m][Depth(m)].pc # "done" THEN "done" ELSE "scan",
     event |-> event, i |-> 0, transition |-> NullTransition,
     guardResult |-> TRUE, retVal |-> FALSE,
     before |-> fsm[m].currentState, w0 |-> writes[m], calls |-> <<>>,
     reentered |-> FALSE, nested |-> <<>>]

\* the locals of one activation of fsm_handle_event; before, w0 and calls
\* record the cursor and write count at entry and the callbacks it invoked,
\* reentered and nested the calls of fsm_handle_event its callbacks made
NewFrame(event, m) ==
    [pc |-> "scan", event |-> event, i |-> 0, transition |-> NullTransition,
     guardResult |-> TRUE, retVal |-> FALSE,
     before |-> fsm[m].currentState, w0 |-> writes[m], calls |-> <<>>,
     reentered |-> FALSE, nested |-> <<>>]

\* a call through a function pointer, skipped when the pointer is NULL
Invoke(f, slot, fn, stateData) ==
    IF fn = NULL
    THEN f.calls
    ELSE Append(f.calls, [slot |-> slot, fn |-> fn, stateData |-> stateData,
                          event |-> f.event, tr |-> f.transition])

\* the comparison written with <= for ==
MatchesAtMost(t, event) == t.eventID <= event.ID

\* transitions[ i ].eventID == event->ID
Matches(t, event) == t.eventID = event.ID

\* the search loop without its break: the last match is kept
ScanFrameNoBreak(f, m) ==
    LET cur == states[Cur(m)] IN
    IF f.i < cur.numTransitions
    THEN IF Matches(cur.transitions[f.i + 1], f.event)
         THEN [f EXCEPT !.transition = [s |-> Cur(m), k |-> f.i + 1], !.i = f.i + 1]
         ELSE [f EXCEPT !.i = f.i + 1]
    ELSE [f EXCEPT !.pc = IF f.transition = NullTransition THEN "done" ELSE "guard"]

\* the search loop with ++i lost on a mismatch
ScanFrameNoIncrement(f, m) ==
    LET cur == states[Cur(m)] IN
    IF f.i < cur.numTransitions
    THEN IF Matches(cur.transitions[f.i + 1], f.event)
         THEN [f EXCEPT !.transition = [s |-> Cur(m), k |-> f.i + 1], !.pc = "guard"]
         ELSE f
    ELSE [f EXCEPT !.pc = "done"]

\* one iteration of the search loop, or its exit when i reaches numTransitions
ScanFrame(f, m) ==
    LET cur == states[Cur(m)] IN
    IF f.i < cur.numTransitions
    THEN IF Matches(cur.transitions[f.i + 1], f.event)
         THEN [f EXCEPT !.transition = [s |-> Cur(m), k |-> f.i + 1], !.pc = "guard"]
         ELSE [f EXCEPT !.i = f.i + 1]
    ELSE [f EXCEPT !.pc = "done"]

\* the guard called with the target state's data
GuardFrameTargetData(f, m) ==
    LET t == Deref(f.transition)
        d == states[t.nextState].data
        res == IF t.guard # NULL THEN GuardEval(t.guard, d, f.event) ELSE TRUE
    IN [f EXCEPT !.guardResult = res,
                 !.calls = Invoke(f, "guard", t.guard, d),
                 !.pc = IF res THEN "exit" ELSE "done"]

\* the guard is called and its result is not tested
GuardFrameIgnored(f, m) ==
    LET t == Deref(f.transition)
        d == states[Cur(m)].data
        res == IF t.guard # NULL THEN GuardEval(t.guard, d, f.event) ELSE TRUE
    IN [f EXCEPT !.guardResult = res,
                 !.calls = Invoke(f, "guard", t.guard, d),
                 !.pc = "exit"]

\* the guard call and the test of guardResult
GuardFrame(f, m) ==
    LET t == Deref(f.transition)
        d == states[Cur(m)].data
        res == IF t.guard # NULL THEN GuardEval(t.guard, d, f.event) ELSE TRUE
    IN [f EXCEPT !.guardResult = res,
                 !.calls = Invoke(f, "guard", t.guard, d),
                 !.pc = IF res THEN "exit" ELSE "done"]

\* a self-transition handled as an internal one: no exit action
ExitFrameInternalSelf(f, m) ==
    [f EXCEPT !.calls = IF Deref(f.transition).nextState = Cur(m)
                        THEN f.calls
                        ELSE Invoke(f, "exit", states[Cur(m)].exitAction,
                                    states[Cur(m)].data),
              !.pc = "action"]

\* the action's test chained to the exit action's with else
ExitFrameElseIf(f, m) ==
    [f EXCEPT !.calls = Invoke(f, "exit", states[Cur(m)].exitAction, states[Cur(m)].data),
              !.pc = IF states[Cur(m)].exitAction # NULL THEN "entry" ELSE "action"]

\* fsm->currentState->exitAction( fsm->currentState->data, event )
ExitFrame(f, m) ==
    [f EXCEPT !.calls = Invoke(f, "exit", states[Cur(m)].exitAction, states[Cur(m)].data),
              !.pc = "action"]

\* the action called with the target state's data
ActionFrameTargetData(f, m) ==
    [f EXCEPT !.calls = Invoke(f, "action", Deref(f.transition).action,
                               states[Deref(f.transition).nextState].data),
              !.pc = "entry"]

\* transition->action( fsm->currentState->data, event )
ActionFrame(f, m) ==
    [f EXCEPT !.calls = Invoke(f, "action", Deref(f.transition).action, states[Cur(m)].data),
              !.pc = "entry"]

\* the entry action taken from the current state instead of the target
EntryFrameCurrent(f, m) ==
    [f EXCEPT !.calls = Invoke(f, "entry", states[Cur(m)].entryAction, states[Cur(m)].data),
              !.pc = "update"]

\* transition->nextState->entryAction( transition->nextState->data, event )
EntryFrame(f, m) ==
    LET n == states[Deref(f.transition).nextState] IN
    [f EXCEPT !.calls = Invoke(f, "entry", n.entryAction, n.data),
              !.pc = "update"]

\* the return without retVal = true
UpdateFrameNoRetVal(f, m) == [f EXCEPT !.pc = "done"]

\* retVal = true, and the return
UpdateFrame(f, m) == [f EXCEPT !.retVal = TRUE, !.pc = "done"]

\* the cursor kept in one place shared by every machine
StoreCurrentStateShared(m, s) == [mm \in Machines |-> [currentState |-> s]]

\* fsm->currentState = s
StoreCurrentState(m, s) == [fsm EXCEPT ![m].currentState = s]

\* the activation on top of m's call stack takes a step to frame f
Advance(m, f) ==
    /\ stack' = [stack EXCEPT ![m][Depth(m)] = f]
    /\ trues' = [trues EXCEPT ![m] = @ + (IF f.pc = "done" /\ f.retVal THEN 1 ELSE 0)]

\* the owner of machine m calls fsm_handle_event( &m, &event )
Call(m, event) ==
    /\ ncalls < MaxDispatches
    /\ Depth(m) = 0 \/ (Depth(m) = 1 /\ Top(m).pc = "done")
    /\ stack' = [stack EXCEPT ![m] = <<NewFrame(event, m)>>]
    /\ ncalls' = ncalls + 1
    /\ UNCHANGED <<states, fsm, writes, trues, topo>>

ScanStep(m) ==
    /\ Running(m) /\ Top(m).pc = "scan"
    /\ Advance(m, ScanFrame(Top(m), m))
    /\ UNCHANGED <<states, fsm, writes, ncalls, topo>>

GuardStep(m) ==
    /\ Running(m) /\ Top(m).pc = "guard"
    /\ Advance(m, GuardFrame(Top(m), m))
    /\ UNCHANGED <<states, fsm, writes, ncalls, topo>>

ExitStep(m) ==
    /\ Running(m) /\ Top(m).pc = "exit"
    /\ Advance(m, ExitFrame(Top(m), m))
    /\ UNCHANGED <<states, fsm, writes, ncalls, topo>>

ActionStep(m) ==
    /\ Running(m) /\ Top(m).pc = "action"
    /\ Advance(m, ActionFrame(Top(m), m))
    /\ UNCHANGED <<states, fsm, writes, ncalls, topo>>

\* the cursor stored before the entry action is called
EntryStepStoresFirst(m) ==
    /\ Running(m) /\ Top(m).pc = "entry"
    /\ fsm' = StoreCurrentState(m, Deref(Top(m).transition).nextState)
    /\ Advance(m, EntryFrame(Top(m), m))
    /\ UNCHANGED <<states, writes, ncalls, topo>>

EntryStep(m) ==
    /\ Running(m) /\ Top(m).pc = "entry"
    /\ Advance(m, EntryFrame(Top(m), m))
    /\ UNCHANGED <<states, fsm, writes, ncalls, topo>>

UpdateStep(m) ==
    /\ Running(m) /\ Top(m).pc = "update"
    /\ fsm' = StoreCurrentState(m, Deref(Top(m).transition).nextState)
    /\ writes' = [writes EXCEPT ![m] = @ + 1]
    /\ Advance(m, UpdateFrame(Top(m), m))
    /\ UNCHANGED <<states, ncalls, topo>>

\* the function pointer the activation is about to call
CallbackAt(f, m) ==
    CASE f.pc = "guard" -> Deref(f.transition).guard
      [] f.pc = "exit" -> states[Cur(m)].exitAction
      [] f.pc = "action" -> Deref(f.transition).action
      [] f.pc = "entry" -> states[Deref(f.transition).nextState].entryAction
      [] OTHER -> NULL

\* the step of the activation that makes that call
CallbackFrame(f, m) ==
    CASE f.pc = "guard" -> GuardFrame(f, m)
      [] f.pc = "exit" -> ExitFrame(f, m)
      [] f.pc = "action" -> ActionFrame(f, m)
      [] OTHER -> EntryFrame(f, m)

\* a guard or callback of the dispatch in progress on m calls
\* fsm_handle_event( &m, &event ) itself, then returns
Reenter(m, event) ==
    /\ ncalls < MaxDispatches
    /\ Running(m) /\ Depth(m) < MaxDepth
    /\ CallbackAt(Top(m), m) # NULL
    /\ stack' = [stack EXCEPT ![m] =
                    Append([stack[m] EXCEPT ![Depth(m)] =
                               [CallbackFrame(Top(m), m) EXCEPT !.reentered = TRUE]],
                           NewFrame(event, m))]
    /\ ncalls' = ncalls + 1
    /\ UNCHANGED <<states, fsm, writes, trues, topo>>

\* the nested call returns into the callback that made it
Return(m) ==
    /\ Depth(m) > 1 /\ Top(m).pc = "done"
    /\ stack' = [stack EXCEPT ![m] =
                    [k \in 1 .. Depth(m) - 1 |->
                        IF k = Depth(m) - 1
                        THEN [stack[m][k] EXCEPT !.nested =
                                 Append(@, [retVal |-> Top(m).retVal,
                                            after |-> fsm[m].currentState])]
                        ELSE stack[m][k]]]
    /\ UNCHANGED <<states, fsm, writes, trues, ncalls, topo>>

Init ==
    /\ topo \in TopologyNames
    /\ states = Topology(topo)
    /\ fsm \in [Machines -> [currentState : DOMAIN Topology(topo)]]
    /\ stack = [m \in Machines |-> <<>>]
    /\ writes = [m \in Machines |-> 0]
    /\ trues = [m \in Machines |-> 0]
    /\ ncalls = 0

Next ==
    \/ \E m \in Machines, event \in Events : Call(m, event)
    \/ \E m \in Machines : ScanStep(m)
    \/ \E m \in Machines : GuardStep(m)
    \/ \E m \in Machines : ExitStep(m)
    \/ \E m \in Machines : ActionStep(m)
    \/ \E m \in Machines : EntryStep(m)
    \/ \E m \in Machines : UpdateStep(m)

Spec == Init /\ [][Next]_vars

\* the next statement of the activation running on m
Step(m) ==
    \/ ScanStep(m)
    \/ GuardStep(m)
    \/ ExitStep(m)
    \/ ActionStep(m)
    \/ EntryStep(m)
    \/ UpdateStep(m)

\* one thread operating one machine whose callbacks dispatch on that machine
Owner == "fsmA"

NextReentrant ==
    \/ \E event \in Events : Call(Owner, event)
    \/ ScanStep(Owner)
    \/ GuardStep(Owner)
    \/ ExitStep(Owner)
    \/ ActionStep(Owner)
    \/ EntryStep(Owner)
    \/ UpdateStep(Owner)
    \/ \E event \in Events : Reenter(Owner, event)
    \/ Return(Owner)

SpecReentrant == Init /\ [][NextReentrant]_vars

\* one thread dispatching on one machine, each call run to completion
NextOwner ==
    \/ \E event \in Events : Call(Owner, event)
    \/ Step(Owner)

\* the thread inside fsm_handle_event keeps executing: the function has no
\* blocking statement and the callbacks it calls return
SpecFair == Init /\ [][NextOwner]_vars /\ WF_vars(Step(Owner))

(* ------------- fsm_handle_event run alone, as one function ------------- *)

\* the search loop: the index of the first transition from k on with the
\* identifier, 0 for transition == NULL
RECURSIVE FindFrom(_, _, _)
FindFrom(ts, id, k) ==
    IF k > Len(ts) THEN 0
    ELSE IF ts[k].eventID = id THEN k
    ELSE FindFrom(ts, id, k + 1)

CallRecord(slot, fn, stateData, event) ==
    IF fn = NULL
    THEN <<>>
    ELSE <<[slot |-> slot, fn |-> fn, stateData |-> stateData, event |-> event]>>

\* the return value, the cursor afterwards and the callbacks called by an
\* uninterrupted fsm_handle_event on a machine whose current state is s
SeqDispatch(s, event) ==
    LET st == states[s]
        k == FindFrom(st.transitions, event.ID, 1)
    IN IF k = 0
       THEN [retVal |-> FALSE, next |-> s, calls |-> <<>>]
       ELSE LET t == st.transitions[k]
                guardResult ==
                    IF t.guard # NULL THEN GuardEval(t.guard, st.data, event) ELSE TRUE
                guardCall == CallRecord("guard", t.guard, st.data, event)
            IN IF guardResult
               THEN [retVal |-> TRUE, next |-> t.nextState,
                     calls |-> guardCall
                         \o CallRecord("exit", st.exitAction, st.data, event)
                         \o CallRecord("action", t.action, st.data, event)
                         \o CallRecord("entry", states[t.nextState].entryAction,
                                       states[t.nextState].data, event)]
               ELSE [retVal |-> FALSE, next |-> s, calls |-> guardCall]

(* ------------------- vocabulary of the properties ---------------------- *)

\* the one activation of a machine whose callbacks do not dispatch
Frame(m) == stack[m][1]

Active(m) == Depth(m) = 1

Returned(m) == Depth(m) = 1 /\ Frame(m).pc = "done"

\* no transition of state s has the event's identifier
NoMatch(s, event) ==
    \A k \in 1 .. Len(states[s].transitions) :
        states[s].transitions[k].eventID # event.ID

\* the index, in declaration order, of the first transition of s with the
\* event's identifier
FirstMatch(s, event) ==
    CHOOSE k \in 1 .. Len(states[s].transitions) :
        /\ states[s].transitions[k].eventID = event.ID
        /\ \A j \in 1 .. k - 1 : states[s].transitions[j].eventID # event.ID

FirstTransition(s, event) == states[s].transitions[FirstMatch(s, event)]

\* the first matching transition's guard is present and evaluates to false
GuardRejects(s, event) ==
    /\ ~NoMatch(s, event)
    /\ FirstTransition(s, event).guard # NULL
    /\ ~GuardEval(FirstTransition(s, event).guard, states[s].data, event)

\* the first matching transition's guard is absent or evaluates to true
GuardAccepts(s, event) ==
    /\ ~NoMatch(s, event)
    /\ \/ FirstTransition(s, event).guard = NULL
       \/ GuardEval(FirstTransition(s, event).guard, states[s].data, event)

\* the calls of an activation made through the given slots, as <<slot, fn>>
CallsIn(f, slots) ==
    LET sel == SelectSeq(f.calls, LAMBDA c : c.slot \in slots)
    IN [k \in 1 .. Len(sel) |-> <<sel[k].slot, sel[k].fn>>]

Present(slot, fn) == IF fn = NULL THEN <<>> ELSE <<(<<slot, fn>>)>>

(* ------------------------------ C1 ------------------------------------- *)

\* C1: when no transition of the current state S has the event's identifier,
\* dispatch returns false, the current state is still S and no guard, exit,
\* action or entry callback is invoked (at no point of the dispatch).
C1_NoMatchReturnsFalse ==
    \A m \in Machines :
        (Active(m) /\ NoMatch(Frame(m).before, Frame(m).event)) =>
            /\ Frame(m).retVal = FALSE
            /\ Frame(m).pc \in {"scan", "done"}
            /\ fsm[m].currentState = Frame(m).before
            /\ writes[m] = Frame(m).w0
            /\ Frame(m).calls = <<>>

\* a dispatch that scanned a non-empty transition list without a match returned
C1_Witness ==
    \E m \in Machines :
        /\ Returned(m)
        /\ NoMatch(Frame(m).before, Frame(m).event)
        /\ states[Frame(m).before].numTransitions > 1
        /\ Frame(m).i = states[Frame(m).before].numTransitions

(* ------------------------------ C2 ------------------------------------- *)

\* C2: when the guard of the first transition matching the event evaluates to
\* false, dispatch returns false, the current state is unchanged and no exit,
\* action or entry callback is invoked.
C2_GuardFalseRejects ==
    \A m \in Machines :
        (Active(m) /\ GuardRejects(Frame(m).before, Frame(m).event)) =>
            /\ Frame(m).retVal = FALSE
            /\ Frame(m).pc \in {"scan", "guard", "done"}
            /\ fsm[m].currentState = Frame(m).before
            /\ writes[m] = Frame(m).w0
            /\ CallsIn(Frame(m), {"exit", "action", "entry"}) = <<>>

\* a dispatch whose guard was called and returned false has returned, from a
\* state that has an exit callback and a transition with an action
C2_Witness ==
    \E m \in Machines :
        /\ Returned(m)
        /\ GuardRejects(Frame(m).before, Frame(m).event)
        /\ Len(Frame(m).calls) = 1
        /\ Frame(m).calls[1].slot = "guard"
        /\ states[Frame(m).before].exitAction # NULL
        /\ FirstTransition(Frame(m).before, Frame(m).event).action # NULL

(* ------------------------------ C3 ------------------------------------- *)

\* the callbacks a transition out of s on the event runs, in order
ExpectedCallbacks(s, event) ==
    LET t == FirstTransition(s, event) IN
    Present("exit", states[s].exitAction)
        \o Present("action", t.action)
        \o Present("entry", states[t.nextState].entryAction)

\* C3: when the guard of the first matching transition is absent or true,
\* dispatch returns true, the current state becomes the transition's target
\* and the present callbacks run exactly once each in the order exit, action,
\* entry; absent ones are skipped.
C3_AcceptedTransitionRuns ==
    \A m \in Machines :
        (Returned(m) /\ GuardAccepts(Frame(m).before, Frame(m).event)) =>
            /\ Frame(m).retVal = TRUE
            /\ fsm[m].currentState =
                   FirstTransition(Frame(m).before, Frame(m).event).nextState
            /\ CallsIn(Frame(m), {"exit", "action", "entry"}) =
                   ExpectedCallbacks(Frame(m).before, Frame(m).event)

\* one dispatch ran an exit, an action and an entry callback and returned,
\* another with an absent guard and no callback present returned true
C3_Witness ==
    /\ \E m \in Machines :
        /\ Returned(m)
        /\ GuardAccepts(Frame(m).before, Frame(m).event)
        /\ Len(CallsIn(Frame(m), {"exit", "action", "entry"})) = 3
    /\ \E m \in Machines :
        /\ Returned(m)
        /\ GuardAccepts(Frame(m).before, Frame(m).event)
        /\ Frame(m).calls = <<>>
        /\ Frame(m).retVal

(* ------------------------------ C4 ------------------------------------- *)

\* state s declares two or more transitions with the event's identifier
HasDuplicate(s, event) ==
    \E j, k \in 1 .. Len(states[s].transitions) :
        /\ j < k
        /\ states[s].transitions[j].eventID = event.ID
        /\ states[s].transitions[k].eventID = event.ID

\* C4: when the current state declares several transitions with the event's
\* identifier, only the first in declaration order is evaluated: every guard,
\* action, exit and entry call of the dispatch is made for that transition,
\* the state is only ever left for its target, and when its guard returns
\* false dispatch returns false with the state unchanged.
C4_FirstDuplicateWins ==
    \A m \in Machines :
        (Active(m) /\ HasDuplicate(Frame(m).before, Frame(m).event)) =>
            LET f == Frame(m)
                first == [s |-> f.before, k |-> FirstMatch(f.before, f.event)]
            IN /\ f.transition \in {NullTransition, first}
               /\ \A k \in 1 .. Len(f.calls) : f.calls[k].tr = first
               /\ fsm[m].currentState \in
                      {f.before, FirstTransition(f.before, f.event).nextState}
               /\ GuardRejects(f.before, f.event) =>
                      (~f.retVal /\ fsm[m].currentState = f.before)
               /\ (f.pc = "done" /\ ~GuardRejects(f.before, f.event)) =>
                      (f.retVal /\ fsm[m].currentState =
                                       FirstTransition(f.before, f.event).nextState)

\* the first duplicate's guard rejected the event, a later duplicate's guard
\* would have accepted it, and the dispatch returned false; and a dispatch
\* whose first duplicate accepted has moved to the first one's target
C4_Witness ==
    /\ \E m \in Machines :
        /\ Returned(m)
        /\ HasDuplicate(Frame(m).before, Frame(m).event)
        /\ GuardRejects(Frame(m).before, Frame(m).event)
        /\ \E k \in 1 .. Len(states[Frame(m).before].transitions) :
              LET t == states[Frame(m).before].transitions[k] IN
              /\ k > FirstMatch(Frame(m).before, Frame(m).event)
              /\ t.eventID = Frame(m).event.ID
              /\ GuardEval(t.guard, states[Frame(m).before].data, Frame(m).event)
              /\ t.nextState # Frame(m).before
        /\ ~Frame(m).retVal
    /\ \E m \in Machines :
        /\ Returned(m)
        /\ HasDuplicate(Frame(m).before, Frame(m).event)
        /\ Frame(m).retVal

(* ------------------------------ C5 ------------------------------------- *)

\* C5: in a dispatch from S to target T the exit callback and the action are
\* called with S's payload, the entry callback with T's payload, and all of
\* them with the event that was submitted.
C5_CallbackArguments ==
    \A m \in Machines :
        Active(m) =>
            LET f == Frame(m) IN
            \A k \in 1 .. Len(f.calls) :
                /\ f.calls[k].event = f.event
                /\ f.calls[k].slot \in {"exit", "action"} =>
                       f.calls[k].stateData = states[f.before].data
                /\ f.calls[k].slot = "entry" =>
                       f.calls[k].stateData =
                           states[FirstTransition(f.before, f.event).nextState].data

\* a successful dispatch between states of different payloads called an
\* exit callback, an action and an entry callback
C5_Witness ==
    \E m \in Machines :
        /\ Returned(m) /\ Frame(m).retVal
        /\ states[Frame(m).before].data # states[fsm[m].currentState].data
        /\ Len(CallsIn(Frame(m), {"exit", "action", "entry"})) = 3

(* ------------------------------ C6 ------------------------------------- *)

\* C6: dispatch returns true exactly when the current state after the call
\* is a different state from the one before it, and false exactly when no
\* transition matched or the matched transition's guard failed.
C6_TrueIffStateChanged ==
    \A m \in Machines :
        Returned(m) =>
            /\ Frame(m).retVal <=> (fsm[m].currentState # Frame(m).before)
            /\ ~Frame(m).retVal <=>
                   (\/ NoMatch(Frame(m).before, Frame(m).event)
                    \/ GuardRejects(Frame(m).before, Frame(m).event))

(* ------------------------------ C7 ------------------------------------- *)

\* C7: the current-state reference is written exactly once in each dispatch
\* that returns true and never in one that returns false, so the number of
\* writes of a machine's cursor equals the number of its dispatches that
\* returned true.
C7_OneWritePerTrue ==
    \A m \in Machines :
        /\ writes[m] = trues[m]
        /\ Active(m) =>
               writes[m] - Frame(m).w0 = (IF Frame(m).retVal THEN 1 ELSE 0)

\* a machine's third dispatch returned false after two that returned true
C7_Witness ==
    \E m \in Machines :
        /\ Returned(m) /\ ~Frame(m).retVal
        /\ trues[m] = 2 /\ writes[m] = 2

(* ------------------------------ C8 ------------------------------------- *)

\* C8: dispatch never modifies the topology: every state's payload,
\* callbacks, transition list and count, and every transition's fields stay
\* what they were at construction; and a step of a dispatch on one machine
\* leaves the current state of every other machine unchanged.
C8_TopologyAndOtherCursorsUntouched ==
    /\ [](states = Topology(topo))
    /\ [][\A m \in Machines :
             stack'[m] = stack[m] => fsm'[m] = fsm[m]]_vars

\* both machines, sharing the topology, have made successful dispatches and
\* are in different states
C8_Witness ==
    /\ \A m \in Machines : Returned(m) /\ Frame(m).retVal /\ writes[m] > 0
    /\ fsm["fsmA"].currentState # fsm["fsmB"].currentState
    /\ states = Topology(topo)

(* ------------------------------ C9 ------------------------------------- *)

\* the calls of an activation as fsm_handle_event run alone records them
Calls(f) ==
    [k \in 1 .. Len(f.calls) |->
        [slot |-> f.calls[k].slot, fn |-> f.calls[k].fn,
         stateData |-> f.calls[k].stateData, event |-> f.calls[k].event]]

IsPrefix(p, q) == Len(p) <= Len(q) /\ SubSeq(q, 1, Len(p)) = p

\* C9: with the dispatches of two machines over one topology interleaved
\* step by step, each dispatch returns what it returns run alone, calls the
\* same callbacks with the same arguments and leaves its machine in the same
\* state; while it runs, its machine's cursor is the one it started from.
C9_InterleavingIsolated ==
    \A m \in Machines :
        Active(m) =>
            LET f == Frame(m)
                alone == SeqDispatch(f.before, f.event)
            IN IF f.pc = "done"
               THEN /\ f.retVal = alone.retVal
                    /\ fsm[m].currentState = alone.next
                    /\ Calls(f) = alone.calls
               ELSE /\ fsm[m].currentState = f.before
                    /\ IsPrefix(Calls(f), alone.calls)

\* both machines are in the middle of a dispatch, past the guard, one about
\* to update its cursor, and they left different states
C9_Witness ==
    /\ Active("fsmA") /\ Active("fsmB")
    /\ Frame("fsmA").pc = "action"
    /\ Frame("fsmB").pc = "update"
    /\ Frame("fsmA").before # Frame("fsmB").before
    /\ Frame("fsmA").calls # <<>>

(* ------------------------------ C10 ------------------------------------ *)

\* C10: fsm_handle_event has no reentrancy guard: a dispatch made on the
\* same machine from inside a guard or callback is executed like any other
\* (an activation that is not itself re-entered returns what a dispatch from
\* its entry state returns, calls the same callbacks and leaves the machine
\* there), and the dispatch in progress then carries on: whenever an
\* activation returns true the cursor is its own transition's target,
\* whatever state a nested dispatch had reached.
C10_NestedDispatchExecuted ==
    \A m \in Machines :
        \A d \in 1 .. Depth(m) :
            LET f == stack[m][d] IN
            /\ (f.pc = "done" /\ ~f.reentered) =>
                   /\ f.retVal = SeqDispatch(f.before, f.event).retVal
                   /\ Calls(f) = SeqDispatch(f.before, f.event).calls
            /\ (f.pc = "done" /\ d = Depth(m)) =>
                   fsm[m].currentState =
                       (IF f.retVal THEN Deref(f.transition).nextState
                        ELSE IF f.nested = <<>> THEN f.before
                        ELSE f.nested[Len(f.nested)].after)

\* the outer dispatch returned true after its exit callback dispatched on the
\* same machine: the nested dispatch returned true and left the machine in a
\* state that the outer cursor update has overwritten, and the outer action
\* was called with a payload that is not that of the state the outer
\* dispatch began in
C10_Witness ==
    \E m \in Machines :
        /\ Depth(m) = 1
        /\ LET f == stack[m][1] IN
           /\ f.pc = "done" /\ f.retVal /\ f.reentered
           /\ \E n \in 1 .. Len(f.nested) :
                 /\ f.nested[n].retVal
                 /\ f.nested[n].after # fsm[m].currentState
           /\ \E k \in 1 .. Len(f.calls) :
                 /\ f.calls[k].slot \in {"exit", "action"}
                 /\ f.calls[k].stateData # states[f.before].data

(* ------------------------------ C11 ------------------------------------ *)

\* the place of a statement group in the text of fsm_handle_event
Rank(pc) ==
    CASE pc = "scan" -> 0
      [] pc = "guard" -> 1
      [] pc = "exit" -> 2
      [] pc = "action" -> 3
      [] pc = "entry" -> 4
      [] pc = "update" -> 5
      [] OTHER -> 6

\* how many calls the activation made through a slot
CallCount(f, slot) == Len(SelectSeq(f.calls, LAMBDA c : c.slot = slot))

\* the search has examined at most numTransitions entries and stopped at the
\* first match; at most one call was made through each slot
BoundedDispatch(m) ==
    LET f == Frame(m)
        n == states[f.before].numTransitions
    IN /\ f.i <= n
       /\ \A k \in 1 .. f.i : states[f.before].transitions[k].eventID # f.event.ID
       /\ f.transition # NullTransition =>
              /\ f.i < n
              /\ f.transition = [s |-> f.before, k |-> f.i + 1]
              /\ Deref(f.transition).eventID = f.event.ID
       /\ (f.pc # "scan" /\ f.transition = NullTransition) => f.i = n
       /\ \A slot \in {"guard", "exit", "action", "entry"} : CallCount(f, slot) <= 1

\* a step of an activation moves forward in the function's text, or is the
\* next iteration of the search loop
ForwardOnly(m) ==
    (Active(m) /\ stack'[m] # stack[m] /\ ncalls' = ncalls) =>
        \/ Rank(stack'[m][1].pc) > Rank(Frame(m).pc)
        \/ /\ Frame(m).pc = "scan" /\ stack'[m][1].pc = "scan"
           /\ stack'[m][1].i = Frame(m).i + 1

\* C11: every dispatch terminates: the search examines at most
\* numTransitions entries and stops at the first match, afterwards at most
\* one guard, exit, action and entry callback are called, no step goes back
\* to the search, and a dispatch in progress always returns.
C11_DispatchTerminates ==
    /\ [](\A m \in Machines : Active(m) => BoundedDispatch(m))
    /\ [][\A m \in Machines : ForwardOnly(m)]_vars
    /\ \A m \in Machines : Running(m) ~> Returned(m)

\* the third dispatch of a machine called a guard and all three callbacks,
\* having found its transition at the first entry of a list of three, and
\* has returned
C11_Witness ==
    \E m \in Machines :
        /\ Returned(m) /\ ncalls = 3
        /\ Len(Frame(m).calls) = 4
        /\ Frame(m).i = 0
        /\ states[Frame(m).before].numTransitions = 3

(* ------------------------------ C12 ------------------------------------ *)

Twin(m) == CHOOSE o \in Machines : o # m

\* the state machine m was constructed with
Start(m) == IF Depth(m) = 0 THEN fsm[m].currentState ELSE Frame(m).start

\* the events machine m has been fed so far
Hist(m) == IF Depth(m) = 0 THEN <<>> ELSE Frame(m).hist

\* what a returned dispatch did: its return value, the callbacks it called
\* with their arguments, and the current state it left
Outcome(m) ==
    [retVal |-> Frame(m).retVal, calls |-> Calls(Frame(m)),
     after |-> fsm[m].currentState]

\* the outcomes of the dispatches of m that have returned, in order
Outs(m) ==
    IF Depth(m) = 0 THEN <<>>
    ELSE IF Returned(m) THEN Append(Frame(m).outs, Outcome(m))
    ELSE Frame(m).outs

\* the owner of m calls fsm_handle_event( &m, &event ), the event being the
\* one its twin was fed at the same position when the twin is ahead
CallTwin(m, event) ==
    /\ Depth(m) = 0 \/ Returned(m)
    /\ Len(Hist(m)) < MaxFeed
    /\ Len(Hist(Twin(m))) > Len(Hist(m)) => event = Hist(Twin(m))[Len(Hist(m)) + 1]
    /\ stack' = [stack EXCEPT ![m] =
                    <<NewFrame(event, m)
                        @@ [hist |-> Append(Hist(m), event), outs |-> Outs(m),
                            start |-> Start(m)]>>]
    /\ ncalls' = ncalls + 1
    /\ UNCHANGED <<states, fsm, writes, trues, topo>>

\* two machines built over the same topology and started in the same state
InitTwin == Init /\ fsm["fsmA"] = fsm["fsmB"]

NextTwin ==
    \/ \E m \in Machines, event \in Events : CallTwin(m, event)
    \/ \E m \in Machines : Step(m)

SpecTwin == InitTwin /\ [][NextTwin]_vars

Emitted(o) == [k \in 1 .. Len(o.calls) |-> o.calls[k].fn]

\* C13: in the door scenario, starting at Closed, the first dispatch of OPEN
\* returns true, emits "closed-exit", "opened", "open-entry" in that order
\* and leaves the machine in Open; a second dispatch of OPEN returns false,
\* emits nothing and leaves it in Open.
C13_DoorScenario ==
    \A m \in Machines :
        (topo = "DoorScenario" /\ Start(m) = "Closed") =>
            /\ (Len(Outs(m)) >= 1 /\ Hist(m)[1].ID = EVENT_OPEN) =>
                   /\ Outs(m)[1].retVal = TRUE
                   /\ Emitted(Outs(m)[1]) = <<"closed-exit", "opened", "open-entry">>
                   /\ Outs(m)[1].after = "Open"
            /\ (Len(Outs(m)) >= 2 /\ Hist(m)[1].ID = EVENT_OPEN
                    /\ Hist(m)[2].ID = EVENT_OPEN) =>
                   /\ Outs(m)[2].retVal = FALSE
                   /\ Emitted(Outs(m)[2]) = <<>>
                   /\ Outs(m)[2].after = "Open"

\* a door started at Closed has been given OPEN twice and both dispatches
\* have returned
C13_Witness ==
    \E m \in Machines :
        /\ topo = "DoorScenario" /\ Start(m) = "Closed"
        /\ Len(Outs(m)) = 2
        /\ Hist(m)[1].ID = EVENT_OPEN /\ Hist(m)[2].ID = EVENT_OPEN
        /\ fsm[m].currentState = "Open"

(* ------------------------------ C14 ------------------------------------ *)

\* the event is KEY with the payload the lock's guard accepts
Unlocks(event) == event.ID = EVENT_KEY /\ event.data = 42

\* C14: in the lock scenario, starting at Locked, a dispatch of KEY with
\* payload 7 returns false and leaves the machine Locked, and the first
\* dispatch of KEY with payload 42 returns true and leaves it Unlocked: the
\* machine is Locked until the first KEY event with payload 42.
C14_LockScenario ==
    \A m \in Machines :
        (topo = "Lock" /\ Start(m) = "Locked") =>
            \A k \in 1 .. Len(Outs(m)) :
                IF \A j \in 1 .. k : ~Unlocks(Hist(m)[j])
                THEN Outs(m)[k].retVal = FALSE /\ Outs(m)[k].after = "Locked"
                ELSE /\ Outs(m)[k].after = "Unlocked"
                     /\ Outs(m)[k].retVal =
                            (Unlocks(Hist(m)[k]) /\ \A j \in 1 .. k - 1 : ~Unlocks(Hist(m)[j]))

\* a lock started at Locked was given KEY with payload 7, which returned
\* false, then KEY with payload 42, which returned true
C14_Witness ==
    \E m \in Machines :
        /\ topo = "Lock" /\ Start(m) = "Locked"
        /\ Len(Outs(m)) = 2
        /\ Hist(m)[1] = [ID |-> EVENT_KEY, data |-> 7]
        /\ Hist(m)[2] = [ID |-> EVENT_KEY, data |-> 42]
        /\ ~Outs(m)[1].retVal /\ Outs(m)[2].retVal
        /\ fsm[m].currentState = "Unlocked"

(* ------------------------------ C15 ------------------------------------ *)

\* C15: the guard of the first matching transition, when present, is called
\* exactly once, with the current state's payload and the submitted event,
\* before any exit, action or entry callback; when no transition matches or
\* the first match has no guard, no guard is called, and no guard of another
\* transition is ever called.
C15_GuardCalledOnceFirst ==
    \A m \in Machines :
        Active(m) =>
            LET f == Frame(m)
                guarded == /\ ~NoMatch(f.before, f.event)
                           /\ FirstTransition(f.before, f.event).guard # NULL
            IN /\ ~guarded => CallCount(f, "guard") = 0
               /\ (guarded /\ Rank(f.pc) <= 1) => f.calls = <<>>
               /\ (guarded /\ Rank(f.pc) > 1) =>
                      /\ CallCount(f, "guard") = 1
                      /\ f.calls[1] =
                             [slot |-> "guard",
                              fn |-> FirstTransition(f.before, f.event).guard,
                              stateData |-> states[f.before].data,
                              event |-> f.event,
                              tr |-> [s |-> f.before,
                                      k |-> FirstMatch(f.before, f.event)]]

\* a dispatch from a state with a duplicate of the event's identifier called
\* the first transition's guard and then an exit, action and entry callback
C15_Witness ==
    \E m \in Machines :
        /\ Returned(m)
        /\ HasDuplicate(Frame(m).before, Frame(m).event)
        /\ Len(Frame(m).calls) = 4
        /\ Frame(m).calls[1].slot = "guard"
        /\ states[Frame(m).before].data #
               states[FirstTransition(Frame(m).before, Frame(m).event).nextState].data

(* ------------------------------ C16 ------------------------------------ *)

\* C16: the current-state reference is advanced only after the entry callback
\* has returned: while the search, the guard and the exit, action and entry
\* callbacks of a dispatch run, the current state is still the outgoing state
\* and has not been written; it is the target once dispatch returns true.
C16_CursorAdvancedLast ==
    \A m \in Machines :
        Active(m) =>
            IF Frame(m).pc # "done"
            THEN fsm[m].currentState = Frame(m).before /\ writes[m] = Frame(m).w0
            ELSE Frame(m).retVal =>
                     /\ fsm[m].currentState = Deref(Frame(m).transition).nextState
                     /\ writes[m] = Frame(m).w0 + 1

\* the entry callback of a target other than the outgoing state has been
\* called and the cursor is not yet written
C16_Witness ==
    \E m \in Machines :
        /\ Active(m) /\ Frame(m).pc = "update"
        /\ CallCount(Frame(m), "entry") = 1
        /\ Deref(Frame(m).transition).nextState # Frame(m).before
        /\ fsm[m].currentState = Frame(m).before

(* ------------------------------ C17 ------------------------------------ *)

\* every transition's target is a defined state
WellFormed ==
    \A s \in DOMAIN states :
        \A k \in 1 .. Len(states[s].transitions) :
            states[s].transitions[k].nextState \in DOMAIN states

\* the targets of the transitions of the states of S (S being defined states)
Targets(S) ==
    UNION {{states[s].transitions[k].nextState :
                k \in 1 .. Len(states[s].transitions)} : s \in S}

RECURSIVE ReachableFrom(_)
\* the states reachable from those of S along transition edges
ReachableFrom(S) ==
    IF Targets(S) \subseteq S THEN S ELSE ReachableFrom(S \cup Targets(S))

\* C17: for a well-formed topology and a machine started in a defined state,
\* the current state is always a defined state reachable from the initial
\* state along transition edges, and each successful dispatch moves along an
\* edge out of the pre-dispatch state whose identifier is the event's (a
\* dispatch that returns false does not move).
C17_StaysInTopology ==
    \A m \in Machines :
        (WellFormed /\ Start(m) \in DOMAIN states) =>
            /\ fsm[m].currentState \in DOMAIN states
            /\ fsm[m].currentState \in ReachableFrom({Start(m)})
            /\ Returned(m) =>
                   IF Frame(m).retVal
                   THEN \E k \in 1 .. Len(states[Frame(m).before].transitions) :
                           LET t == states[Frame(m).before].transitions[k] IN
                           /\ t.eventID = Frame(m).event.ID
                           /\ t.nextState = fsm[m].currentState
                   ELSE fsm[m].currentState = Frame(m).before

\* a machine has made two successful dispatches along two edges and is in a
\* third state, and some defined state is not reachable from where it began
C17_Witness ==
    \E m \in Machines :
        /\ Len(Outs(m)) = 2
        /\ Outs(m)[1].retVal /\ Outs(m)[2].retVal
        /\ Cardinality({Start(m), Outs(m)[1].after, Outs(m)[2].after}) = 3
        /\ ReachableFrom({Start(m)}) # DOMAIN states

(* ------------------------------ C18 ------------------------------------ *)

\* C18: a self-transition whose guard is absent or true is a full external
\* transition: the state's exit callback, the transition's action and the
\* state's entry callback each run once, in that order, with the state's
\* payload, the cursor is written, and the current state afterwards is S.
C18_SelfTransitionExternal ==
    \A m \in Machines :
        (/\ Returned(m)
         /\ GuardAccepts(Frame(m).before, Frame(m).event)
         /\ FirstTransition(Frame(m).before, Frame(m).event).nextState = Frame(m).before) =>
            LET f == Frame(m)
                S == states[f.before]
                t == FirstTransition(f.before, f.event)
            IN /\ SelectSeq(Calls(f), LAMBDA c : c.slot # "guard") =
                      CallRecord("exit", S.exitAction, S.data, f.event)
                          \o CallRecord("action", t.action, S.data, f.event)
                          \o CallRecord("entry", S.entryAction, S.data, f.event)
               /\ fsm[m].currentState = f.before
               /\ writes[m] = f.w0 + 1

\* a self-transition of a state with exit and entry callbacks, with an
\* action, has been dispatched
C18_Witness ==
    \E m \in Machines :
        /\ Returned(m)
        /\ GuardAccepts(Frame(m).before, Frame(m).event)
        /\ FirstTransition(Frame(m).before, Frame(m).event).nextState = Frame(m).before
        /\ Len(Frame(m).calls) = 3
        /\ fsm[m].currentState = Frame(m).before

====
